---- MODULE Spec2Model ----
(***************************************************************************)
(* Model of src/main.py: the scheduler-and-committer loop.                 *)
(*                                                                         *)
(* The file holds two variants of the script.  Variant 1 (lines 1-224)     *)
(* floors the base interval at MIN_DELAY, floors both means at MIN_DELAY   *)
(* and has a high-frequency mode in get_effective_delay.  Variant 2 (lines *)
(* 225-430) has no base floor, floors the means at 600 and 300 and samples *)
(* the delay inline at the head of the main loop.  `variant` selects which *)
(* one runs.                                                               *)
(*                                                                         *)
(* Times are whole seconds.  Python floats are modelled as integers;       *)
(* products with the fractions 0.2 and 0.3 drop the fractional part.       *)
(* The random sources are nondeterministic choices:                        *)
(*   random.gauss(mu, sigma)      = mu + z * sigma, z a whole number of    *)
(*                                  standard deviations from GaussZ;       *)
(*   random.expovariate(1 / mean) = mean * e / 2, e from ExpoE (the        *)
(*                                  sample -ln(1-u) in halves; u = 0.0     *)
(*                                  gives 0).                              *)
(***************************************************************************)
EXTENDS Integers, Sequences, FiniteSets

\* ---- bounds of the model -------------------------------------------------
\* Largest |z| (standard deviations) a normal sample takes.
MaxSigma == 6
\* Largest exponential sample, in multiples of the mean.
MaxExpo == 5
\* Loop iterations explored.
MaxIter == 2
\* Calls of tweak_file explored by SpecTweak.
MaxTweaks == 3

\* ---- program constants ---------------------------------------------------
MIN_DELAY == 10
MAX_MULTIPLIER == 4
\* Literal floors of the second variant's resample_weekly / resample_daily.
WEEKLY_FLOOR_2 == 600
DAILY_FLOOR_2 == 300
\* Literal threshold of the high-frequency test in get_effective_delay.
HIGH_FREQ_LIMIT == 10
\* Seconds per hour, the numerator of BASE_MEAN_INTERVAL.
SECONDS_PER_HOUR == 3600

Hour == SECONDS_PER_HOUR
Day == 24 * Hour
Week == 7 * Day
QuarterDay == 6 * Hour

\* current_week / current_day before the first sampling call.
None == -1

Max(a, b) == IF a >= b THEN a ELSE b
Min(a, b) == IF a <= b THEN a ELSE b

\* ---- inputs --------------------------------------------------------------
Variants == {1, 2}
\* --times-per-hour values per variant: the default, the high-frequency
\* boundary, just above it, and one whose interval falls below MIN_DELAY.
\* Variant 2 has no high-frequency test; 12 puts its base interval below
\* both floors.
Rates(v) == IF v = 1 THEN {1, 10, 12, 720} ELSE {1, 12}
\* Offset of the local time zone from UTC.
TzOffsets == {-QuarterDay, 0}
\* Process start: a Sunday 18:00 UTC (time 0 is a Monday 00:00 UTC).
StartTimes == {6 * Day + 18 * Hour}
GaussZ == {-MaxSigma, MaxSigma \div 2}
ExpoE == {0, 1, 2 * MaxExpo}

README == [dir |-> "", base |-> "README", ext |-> "md"]
LivePy == [dir |-> "src/qss/live", base |-> "live", ext |-> "py"]
License == [dir |-> "", base |-> "LICENSE", ext |-> ""]
\* Representatives of the FILES list (one .md at top level, one .py in a
\* directory).
FILES == {README, LivePy}
\* Paths tweak_file is applied to: FILES plus one of the "other" category.
TweakPaths == FILES \cup {License}

VARIABLES
    variant,          \* which variant of the script runs
    times_per_hour,   \* args.times_per_hour
    tz,               \* local time zone offset (seconds)
    now,              \* wall clock, seconds (UTC)
    current_week, weekly_mean, current_day, daily_mean,   \* schedule state
    delay,            \* the delay of the current iteration
    start,            \* countdown's start time
    pc,               \* position of the main flow
    file_to_edit,     \* path chosen in the current iteration
    fs,               \* file system: path -> [exists, data]
    dirs,             \* existing directories
    iter,             \* number of sampling calls so far
    log,              \* steps executed in the current iteration
    lastCall,         \* what the last sampling call did
    wdrawn, ddrawn,   \* week / day of every redraw of weekly_mean / daily_mean
    fs0, tweaks       \* initial file system, successful tweak_file calls

schedule == <<current_week, weekly_mean, current_day, daily_mean>>
files == <<fs, dirs, fs0, tweaks>>
vars == <<variant, times_per_hour, tz, now, current_week, weekly_mean,
          current_day, daily_mean, delay, start, pc, file_to_edit, fs, dirs,
          iter, log, lastCall, wdrawn, ddrawn, fs0, tweaks>>

\* ---- configuration -------------------------------------------------------
BaseMeanInterval(v, tph) ==
    LET b == SECONDS_PER_HOUR \div tph
    IN  IF v = 1 /\ b < MIN_DELAY THEN MIN_DELAY ELSE b

BASE_MEAN_INTERVAL == BaseMeanInterval(variant, times_per_hour)

WeeklyFloor == IF variant = 1 THEN MIN_DELAY ELSE WEEKLY_FLOOR_2
DailyFloor == IF variant = 1 THEN MIN_DELAY ELSE DAILY_FLOOR_2

\* ---- random sources ------------------------------------------------------
gauss(mu, sigma, z) == mu + z * sigma

expovariate(mean, e) == (mean * e) \div 2

\* ---- delay sampler -------------------------------------------------------
ResampleWeeklyNoFloor(base, z) == gauss(base, (base * 2) \div 10, z)

resample_weekly(base, z) ==
    Max(WeeklyFloor, gauss(base, (base * 2) \div 10, z))

ResampleDailyNoFloor(wm, z) == gauss(wm, (wm * 3) \div 10, z)

resample_daily(wm, z) ==
    Max(DailyFloor, gauss(wm, (wm * 3) \div 10, z))

draw_delay(mean, e) == Min(expovariate(mean, e), mean * MAX_MULTIPLIER)

\* now.isocalendar()[1] of the UTC clock (years of 52 whole weeks).
IsoWeek(t) == ((t \div Week) % 52) + 1
\* date.today(): the local date, as a day number.
Today(t) == (t + tz) \div Day

HighFrequencyAtTen(tph) == tph >= HIGH_FREQ_LIMIT

HighFrequency(tph) == tph > HIGH_FREQ_LIMIT

AlwaysNew(key, stored) == TRUE

IsNew(key, stored) == key # stored

NoCall == [n |-> 0, mode |-> "none", week |-> None, today |-> None,
           prevWeek |-> None, prevDay |-> None, prevW |-> 0, prevD |-> 0,
           redrewW |-> FALSE, redrewD |-> FALSE, rawW |-> 0, rawD |-> 0,
           mean |-> 0, raw |-> 0]

\* get_effective_delay() of variant 1 / the loop head of variant 2.
SampleDelay(zw, zd, e) ==
    LET week == IsoWeek(now)
        today == Today(now)
        base == BASE_MEAN_INTERVAL
    IN
    IF variant = 1 /\ HighFrequency(times_per_hour)
    THEN /\ delay' = Max(MIN_DELAY, expovariate(base, e))
         /\ UNCHANGED <<schedule, wdrawn, ddrawn>>
         /\ lastCall' = [NoCall EXCEPT !.n = iter + 1, !.mode = "direct",
                            !.week = week, !.today = today,
                            !.prevWeek = current_week, !.prevDay = current_day,
                            !.prevW = weekly_mean, !.prevD = daily_mean,
                            !.mean = base, !.raw = expovariate(base, e)]
    ELSE
      LET newW == IsNew(week, current_week)
          newD == IsNew(today, current_day)
          wm == IF newW THEN resample_weekly(base, zw) ELSE weekly_mean
          dm == IF newD THEN resample_daily(wm, zd) ELSE daily_mean
      IN /\ weekly_mean' = wm
         /\ current_week' = IF newW THEN week ELSE current_week
         /\ daily_mean' = dm
         /\ current_day' = IF newD THEN today ELSE current_day
         /\ delay' = draw_delay(dm, e)
         /\ wdrawn' = IF newW THEN Append(wdrawn, now \div Week) ELSE wdrawn
         /\ ddrawn' = IF newD THEN Append(ddrawn, today) ELSE ddrawn
         /\ lastCall' = [n |-> iter + 1, mode |-> "weekly",
                         week |-> week, today |-> today,
                         prevWeek |-> current_week, prevDay |-> current_day,
                         prevW |-> weekly_mean, prevD |-> daily_mean,
                         redrewW |-> newW, redrewD |-> newD,
                         rawW |-> IF newW THEN ResampleWeeklyNoFloor(base, zw) ELSE 0,
                         rawD |-> IF newD THEN ResampleDailyNoFloor(wm, zd) ELSE 0,
                         mean |-> dm, raw |-> expovariate(dm, e)]

\* ---- countdown -----------------------------------------------------------
DoneAtOnce(elapsed, d) == TRUE

CountdownDone(elapsed, d) == elapsed >= d

\* ---- file mutator --------------------------------------------------------
Category(path) ==
    IF path.ext = "py" THEN "py" ELSE IF path.ext = "md" THEN "md" ELSE "other"

Template(path) ==
    [kind |-> "template", style |-> Category(path), name |-> path.base, ts |-> 0]

UserLine == [kind |-> "user", style |-> "", name |-> "", ts |-> 0]

Absent == [exists |-> FALSE, data |-> <<>>]

\* strftime("%Y-%m-%d %H:%M UTC"): the UTC minute.
FormatTimestamp(t) == t \div 60

Note(path, ts) ==
    [kind |-> "stamp", style |-> IF path.ext = "md" THEN "quote" ELSE "hash",
     name |-> "", ts |-> ts]

MakeDirs(ds, path) ==
    IF path.dir # "" /\ path.dir \notin ds THEN ds \cup {path.dir} ELSE ds

EnsureAlwaysWrites(f, path) ==
    [f EXCEPT ![path] = [exists |-> TRUE, data |-> <<Template(path)>>]]

ensure_file_exists(f, path) ==
    IF ~f[path].exists
    THEN [f EXCEPT ![path] = [exists |-> TRUE, data |-> <<Template(path)>>]]
    ELSE f

tweak_file(f, path, ts) ==
    LET f1 == ensure_file_exists(f, path)
    IN  [f1 EXCEPT ![path].data = Append(@, Note(path, ts))]

\* ---- subprocess.run(..., check=True) ---------------------------------------
RunUnchecked(status, next) == next

RunChecked(status, next) == IF status = 0 THEN next ELSE "aborted"

ExitStatus == {0, 1}

\* ---- initial states --------------------------------------------------------
AllAbsent == [p \in TweakPaths |-> Absent]
\* A working tree holding README.md and none of the other paths.
Checkout == [AllAbsent EXCEPT ![README] = [exists |-> TRUE, data |-> <<UserLine>>]]

DirsOf(f) == {""} \cup {p.dir : p \in {q \in TweakPaths : f[q].exists}}

InitCommon ==
    /\ now \in StartTimes
    /\ current_week = None
    /\ weekly_mean = BASE_MEAN_INTERVAL
    /\ current_day = None
    /\ daily_mean = BASE_MEAN_INTERVAL
    /\ delay = 0
    /\ start = 0
    /\ file_to_edit = README
    /\ iter = 0
    /\ log = <<>>
    /\ lastCall = NoCall
    /\ wdrawn = <<>>
    /\ ddrawn = <<>>
    /\ tweaks = [p \in TweakPaths |-> 0]

Init ==
    /\ variant \in Variants
    /\ times_per_hour \in Rates(variant)
    /\ tz \in TzOffsets
    /\ InitCommon
    /\ pc = "config_name"
    /\ fs = Checkout
    /\ fs0 = fs
    /\ dirs = DirsOf(fs)

\* ---- main flow -------------------------------------------------------------
\* git config user.name ...
ConfigName ==
    /\ pc = "config_name"
    /\ \E status \in ExitStatus : pc' = RunChecked(status, "config_email")
    /\ UNCHANGED <<variant, times_per_hour, tz, now, schedule, delay, start,
                   file_to_edit, files, iter, log, lastCall, wdrawn, ddrawn>>

\* git config user.email ...
ConfigEmail ==
    /\ pc = "config_email"
    /\ \E status \in ExitStatus : pc' = RunChecked(status, "sample")
    /\ UNCHANGED <<variant, times_per_hour, tz, now, schedule, delay, start,
                   file_to_edit, files, iter, log, lastCall, wdrawn, ddrawn>>

Entry(step, path, status) == [step |-> step, path |-> path, status |-> status]

Sample ==
    /\ pc = "sample"
    /\ iter < MaxIter
    /\ \E zw \in GaussZ, zd \in GaussZ, e \in ExpoE : SampleDelay(zw, zd, e)
    /\ iter' = iter + 1
    /\ log' = <<Entry("sample", README, 0)>>
    /\ pc' = "countdown"
    /\ start' = now
    /\ UNCHANGED <<variant, times_per_hour, tz, now, file_to_edit, files>>

\* One pass of countdown's polling loop: leave when elapsed >= delay,
\* otherwise time.sleep(0.3).  The sleep returns after an unspecified time:
\* either the remaining time has then passed exactly (many short polls), or
\* six hours have (a suspended process).
CountdownPoll ==
    /\ pc = "countdown"
    /\ LET elapsed == now - start
       IN IF CountdownDone(elapsed, delay)
          THEN /\ pc' = "tweak"
               /\ log' = Append(log, Entry("countdown", README, 0))
               /\ now' = now
          ELSE /\ \E dt \in {delay - elapsed, QuarterDay} :
                     /\ dt > 0
                     /\ now' = now + dt
               /\ UNCHANGED <<pc, log>>
    /\ UNCHANGED <<variant, times_per_hour, tz, schedule, delay, start,
                   file_to_edit, files, iter, lastCall, wdrawn, ddrawn>>

\* random.choice(FILES); tweak_file(file_to_edit).  An I/O error ends the
\* process: before anything is written, or after the template is written
\* and before the note is appended.
Tweak ==
    /\ pc = "tweak"
    /\ \E path \in FILES, io \in {"ok", "fail_create", "fail_append"} :
          /\ file_to_edit' = path
          /\ CASE io = "ok" ->
                    /\ fs' = tweak_file(fs, path, FormatTimestamp(now))
                    /\ dirs' = MakeDirs(dirs, path)
                    /\ tweaks' = [tweaks EXCEPT ![path] = @ + 1]
                    /\ pc' = "add"
                    /\ log' = Append(log, Entry("tweak", path, 0))
               [] io = "fail_create" ->
                    /\ UNCHANGED <<fs, dirs, tweaks>>
                    /\ pc' = "aborted"
                    /\ log' = Append(log, Entry("tweak", path, 1))
               [] io = "fail_append" ->
                    /\ fs' = ensure_file_exists(fs, path)
                    /\ dirs' = MakeDirs(dirs, path)
                    /\ UNCHANGED tweaks
                    /\ pc' = "aborted"
                    /\ log' = Append(log, Entry("tweak", path, 1))
    /\ UNCHANGED <<variant, times_per_hour, tz, now, schedule, delay, start,
                   fs0, iter, lastCall, wdrawn, ddrawn>>

GitStep(step, next) ==
    /\ pc = step
    /\ \E status \in ExitStatus :
          /\ pc' = RunChecked(status, next)
          /\ log' = Append(log, Entry(step, file_to_edit, status))
    /\ UNCHANGED <<variant, times_per_hour, tz, now, schedule, delay, start,
                   file_to_edit, files, iter, lastCall, wdrawn, ddrawn>>

GitAdd == GitStep("add", "commit")
GitCommit == GitStep("commit", "push")
GitPush == GitStep("push", "sample")

Next ==
    \/ ConfigName
    \/ ConfigEmail
    \/ Sample
    \/ CountdownPoll
    \/ Tweak
    \/ GitAdd
    \/ GitCommit
    \/ GitPush

Spec == Init /\ [][Next]_vars

\* The countdown loop keeps polling: the process is never descheduled forever.
LiveSpec == Spec /\ WF_vars(CountdownPoll)

\* ---- tweak_file alone ------------------------------------------------------
InitialFiles == {Absent,
                 [exists |-> TRUE, data |-> <<>>],
                 [exists |-> TRUE, data |-> <<UserLine>>]}

InitTweak ==
    /\ variant \in Variants
    /\ times_per_hour = 1
    /\ tz = 0
    /\ InitCommon
    /\ pc = "tweak_only"
    /\ fs \in [TweakPaths -> InitialFiles]
    /\ fs0 = fs
    /\ dirs = DirsOf(fs)

TotalTweaks == tweaks[README] + tweaks[LivePy] + tweaks[License]

\* One call tweak_file(path); the clock may reach the next minute between
\* calls.
TweakCall ==
    /\ pc = "tweak_only"
    /\ TotalTweaks < MaxTweaks
    /\ \E path \in TweakPaths :
          /\ fs' = tweak_file(fs, path, FormatTimestamp(now))
          /\ dirs' = MakeDirs(dirs, path)
          /\ tweaks' = [tweaks EXCEPT ![path] = @ + 1]
          /\ file_to_edit' = path
    /\ \E dt \in {0, 60} : now' = now + dt
    /\ UNCHANGED <<variant, times_per_hour, tz, schedule, delay, start, pc,
                   fs0, iter, log, lastCall, wdrawn, ddrawn>>

NextTweak == TweakCall

SpecTweak == InitTweak /\ [][NextTweak]_vars

\* ==== claims ================================================================

\* C1 (as stated): in every reachable state, from process start onward,
\* weekly_mean and daily_mean are at least their floors.
C1_MeansAlwaysFloored ==
    /\ weekly_mean >= WeeklyFloor
    /\ daily_mean >= DailyFloor

\* C1 (amended): in variant 1 both means are at least MIN_DELAY in every
\* state; in both variants every sampled mean is at least its floor, i.e.
\* weekly_mean once current_week is set and daily_mean once current_day is.
C1_SampledMeansFloored ==
    /\ variant = 1 => weekly_mean >= MIN_DELAY /\ daily_mean >= MIN_DELAY
    /\ current_week # None => weekly_mean >= WeeklyFloor
    /\ current_day # None => daily_mean >= DailyFloor

C1_Witness ==
    /\ variant = 2
    /\ lastCall.redrewW /\ lastCall.rawW < WEEKLY_FLOOR_2
    /\ current_week # None /\ weekly_mean = WEEKLY_FLOOR_2
    /\ lastCall.redrewD /\ lastCall.rawD < DAILY_FLOOR_2
    /\ daily_mean = DAILY_FLOOR_2

\* C2: every delay the sampler returns satisfies
\* 0 <= delay <= mean * MAX_MULTIPLIER, mean being the daily mean in the
\* weekly/daily mode and the base interval in the high-frequency mode.
C2_DelayWithinClamp ==
    lastCall.mode # "none" =>
        /\ 0 <= delay
        /\ delay <= lastCall.mean * MAX_MULTIPLIER

\* C3: the delay handed to the countdown is never zero or negative; the
\* minimum delay floor applies to it in both modes.
C3_DelayPositive ==
    pc = "countdown" =>
        /\ delay > 0
        /\ variant = 1 => delay >= MIN_DELAY

NoDuplicates(seq) ==
    \A i, j \in DOMAIN seq : i # j => seq[i] # seq[j]

\* C4: in the weekly/daily mode a call redraws weekly_mean exactly when its
\* ISO week differs from the stored one and daily_mean exactly when its day
\* differs from the stored one; the first call redraws both; a call in the
\* stored week and day leaves both means as they were; no week and no day is
\* resampled twice.
C4_ResampleOncePerKey ==
    /\ lastCall.mode = "weekly" =>
          /\ lastCall.redrewW <=> (lastCall.week # lastCall.prevWeek)
          /\ lastCall.redrewD <=> (lastCall.today # lastCall.prevDay)
          /\ lastCall.n = 1 => lastCall.redrewW /\ lastCall.redrewD
          /\ ~lastCall.redrewW => weekly_mean = lastCall.prevW
          /\ ~lastCall.redrewD => daily_mean = lastCall.prevD
          /\ current_week = lastCall.week
          /\ current_day = lastCall.today
    /\ NoDuplicates(wdrawn)
    /\ NoDuplicates(ddrawn)

C4_Witness ==
    /\ lastCall.mode = "weekly"
    /\ lastCall.n = 2
    /\ ~lastCall.redrewW /\ ~lastCall.redrewD
    /\ pc = "countdown" /\ delay > 0
    /\ Len(wdrawn) = 1 /\ Len(ddrawn) = 1

\* C5: a get_effective_delay call at a rate above 10 per hour leaves
\* current_week, weekly_mean, current_day and daily_mean unchanged and draws
\* the delay from the base mean interval; at a rate of 10 or lower it takes
\* the weekly/daily path.
C5_HighFrequencyBypass ==
    [][(pc = "sample" /\ pc' = "countdown" /\ variant = 1) =>
          IF times_per_hour > HIGH_FREQ_LIMIT
          THEN /\ UNCHANGED schedule
               /\ lastCall'.mode = "direct"
               /\ lastCall'.mean = BASE_MEAN_INTERVAL
               /\ \E e \in ExpoE :
                     delay' = Max(MIN_DELAY, expovariate(BASE_MEAN_INTERVAL, e))
          ELSE /\ lastCall'.mode = "weekly"
               /\ current_week' = IsoWeek(now)
               /\ current_day' = Today(now)]_vars

C5_Witness ==
    /\ variant = 1 /\ times_per_hour = 12
    /\ lastCall.mode = "direct" /\ lastCall.n = 2
    /\ current_week = None /\ current_day = None
    /\ weekly_mean = BASE_MEAN_INTERVAL /\ daily_mean = BASE_MEAN_INTERVAL

StepOrder == <<"sample", "countdown", "tweak", "add", "commit", "push">>

\* C6: the steps of an iteration run in the order sample, countdown, mutate,
\* add, commit, push; add stages the path mutated in the iteration; a step
\* runs only if every earlier step of the iteration returned status zero;
\* after a non-zero status the process has terminated and nothing runs.
C6_StepsInOrderAbortOnFailure ==
    /\ Len(log) <= Len(StepOrder)
    /\ \A i \in DOMAIN log :
          /\ log[i].step = StepOrder[i]
          /\ i > 1 => log[i - 1].status = 0
          /\ i > 3 => log[i].path = log[3].path
    /\ (log # <<>> /\ log[Len(log)].status # 0) => pc = "aborted"
    /\ Len(log) >= 3 => file_to_edit = log[3].path
    /\ pc = "aborted" => ~ENABLED Next

C6_Witness ==
    /\ iter = 2
    /\ pc = "aborted"
    /\ Len(log) = 5
    /\ log[4].step = "add" /\ log[4].status = 0 /\ log[4].path = LivePy
    /\ log[5].step = "commit" /\ log[5].status = 1

BaseContent(p) == IF fs0[p].exists THEN fs0[p].data ELSE <<Template(p)>>

SizeAtStart(p) == IF fs0[p].exists THEN Len(fs0[p].data) ELSE 0

\* C7: after n >= 1 successful tweak_file calls on a path the file holds the
\* template of the path's category (if it did not exist) or its previous
\* content (if it did), followed by exactly n stamps, and is strictly larger
\* than before; a path never tweaked is untouched.
C7_TweakAppendsOneStamp ==
    \A p \in TweakPaths :
        IF tweaks[p] = 0
        THEN fs[p] = fs0[p]
        ELSE LET base == BaseContent(p)
                 data == fs[p].data
             IN /\ fs[p].exists
                /\ Len(data) = Len(base) + tweaks[p]
                /\ SubSeq(data, 1, Len(base)) = base
                /\ ~fs0[p].exists =>
                      /\ data[1].kind = "template"
                      /\ data[1].style = Category(p)
                /\ \A i \in (Len(base) + 1)..Len(data) :
                      /\ data[i].kind = "stamp"
                      /\ data[i].style = IF p.ext = "md" THEN "quote" ELSE "hash"
                /\ Len(data) > SizeAtStart(p)

C7_Witness ==
    /\ pc = "tweak_only"
    /\ ~fs0[License].exists /\ tweaks[License] = 2
    /\ Len(fs[License].data) = 3 /\ fs[License].data[1].style = "other"
    /\ fs0[README].data = <<UserLine>> /\ tweaks[README] = 1
    /\ fs[README].data[1] = UserLine /\ Len(fs[README].data) = 2

NegativeMeanSample ==
    \/ lastCall.redrewW /\ lastCall.rawW < 0
    \/ lastCall.redrewD /\ lastCall.rawD < 0

\* C8 (as stated): after a negative sample for the weekly mean, the daily
\* mean or the delay the process has terminated: no countdown, file mutation
\* or git step follows.
C8_NegativeSampleAborts ==
    (NegativeMeanSample \/ lastCall.raw < 0) => pc = "aborted"

\* C8 (amended): a negative sample for the weekly or the daily mean is
\* replaced by the floor and the call is followed by the countdown; the
\* exponential sample for the delay is never negative.
C8_NegativeSampleFloored ==
    /\ (lastCall.redrewW /\ lastCall.rawW < 0) => weekly_mean = WeeklyFloor
    /\ (lastCall.redrewD /\ lastCall.rawD < 0) => daily_mean = DailyFloor
    /\ lastCall.raw >= 0
    /\ Len(log) = 1 => pc = "countdown"

C8_Witness ==
    /\ lastCall.redrewW /\ lastCall.rawW < 0
    /\ lastCall.redrewD /\ lastCall.rawD < 0
    /\ pc = "commit"
    /\ tweaks[file_to_edit] > 0

\* C9: countdown(delay) does not return while less than delay has elapsed
\* since its start, so the file mutation and the git steps of an iteration
\* happen only after the delay has elapsed; a poll that finds
\* elapsed >= delay returns, an earlier one sleeps; and the countdown always
\* returns.
C9_CountdownWaitsAndReturns ==
    /\ [](pc \in {"tweak", "add", "commit", "push"} => now - start >= delay)
    /\ [][(pc = "countdown" /\ now - start >= delay) => pc' = "tweak"]_vars
    /\ [][(pc = "countdown" /\ now - start < delay) =>
               (pc' = "countdown" /\ now' > now)]_vars
    /\ (pc = "countdown") ~> (pc = "tweak")

C9_Witness ==
    /\ pc = "tweak"
    /\ delay > QuarterDay
    /\ now - start >= delay

====
